---- MODULE Spec2Model ----
(***************************************************************************)
(* Model of the quotation API (main.py): the quote calculator              *)
(* calcular_items / calcular_respuesta, the PDF table builder              *)
(* generar_pdf_bytes and the two endpoints cotizar_json and cotizar_pdf.   *)
(*                                                                         *)
(* The program is stateless: every request is answered from the payload,   *)
(* the price constants and (for the PDF) the files under static/.  A       *)
(* behaviour is therefore one request: Init draws the payload and the      *)
(* state of the file system, and one of the two endpoint handlers answers. *)
(*                                                                         *)
(* Optional[T] values are sequences: <<>> is None, <<x>> is the value x.   *)
(* Description strings are written without accents.                        *)
(***************************************************************************)
EXTENDS Integers, Sequences, FiniteSets, TLC

VARIABLES payload, fs, pc, quote, resp, doc

vars == <<payload, fs, pc, quote, resp, doc>>

(***************************************************************************)
(* Bounds of the explored inputs.                                          *)
(***************************************************************************)
MaxDias == 2
MaxCount == 1
MaxMinutos == 2

(***************************************************************************)
(* Prices (main.py:77-86).                                                 *)
(***************************************************************************)
P_SHOTGUN == 150000
P_LAVALIER == 80000
P_MONITOREO == 60000
P_TIMECODE == 40000
P_MIXPRE6 == 150000
P_MIXPRE10 == 200000
P_SONIDISTA == 400000
P_MICROFONISTA == 250000
P_POST_STEREO == 300000
P_POST_5_1 == 400000

(***************************************************************************)
(* Python helpers.                                                         *)
(***************************************************************************)
None == <<>>
Some(x) == <<x>>

\* `x or d` for an Optional[str]: None and "" are falsy
StrOr(opt, d) == IF opt = None \/ opt = Some("") THEN d ELSE opt[1]

\* `x or d` for an Optional[int]: None and 0 are falsy
IntOr(opt, d) == IF opt = None \/ opt = Some(0) THEN d ELSE opt[1]

\* str.lower() on the strings the explored payloads hold
Lower(s) ==
    CASE s = "POSTPRODUCCION" -> "postproduccion"
      [] s = "Ambos" -> "ambos"
      [] s = "STEREO" -> "stereo"
      [] s = "Stereo" -> "stereo"
      [] OTHER -> s

\* str() of the grabadora field, a Union[str, int]
Str(g) ==
    IF g.t = "int"
    THEN CASE g.v = 6 -> "6" [] g.v = 10 -> "10" [] OTHER -> "otro"
    ELSE g.v

Max(a, b) == IF a >= b THEN a ELSE b

\* int(round(num / den)) for den > 0: Python 3 rounds halves to the even
\* neighbour.  \div is the floor division and % the non-negative remainder.
Round(num, den) ==
    LET q == num \div den
        r == num % den
    IN  IF 2 * r < den THEN q
        ELSE IF 2 * r > den THEN q + 1
        ELSE IF q % 2 = 0 THEN q ELSE q + 1

(***************************************************************************)
(* calcular_items (main.py:101-181).                                       *)
(***************************************************************************)
SonidoDirectoIn ==
    [dias |-> 0, shotgun |-> 0, lavalier |-> 0, monitoreo |-> 0, timecode |-> 0,
     grabadora |-> None, sonidista |-> FALSE, microfonista |-> FALSE]

PostProduccionIn == [minutos |-> 0, mezcla |-> Some("stereo")]

\* items.append({...}); subtotal_x += sub
Agregar(acc, campo, descripcion, cantidad, duracion, unitario, sub) ==
    [acc EXCEPT !.items = Append(@, [descripcion |-> descripcion,
                                     cantidad |-> cantidad,
                                     duracion |-> duracion,
                                     unitario |-> unitario,
                                     subtotal |-> sub]),
                ![campo] = @ + sub]

\* faulty variant of LineaEquipo: the line total forgets the days
LineaEquipo_sinDias(acc, descripcion, n, precio, dias) ==
    IF n > 0
    THEN Agregar(acc, "subtotal_sd", descripcion, n, <<dias, "dias">>, precio,
                 n * precio)
    ELSE acc

\* one of the four equipment blocks: if n > 0: sub = n * P * dias ...
LineaEquipo(acc, descripcion, n, precio, dias) ==
    IF n > 0
    THEN Agregar(acc, "subtotal_sd", descripcion, n, <<dias, "dias">>, precio,
                 n * precio * dias)
    ELSE acc

\* grab = str(sd.grabadora) if sd.grabadora is not None else ""; "6" / "10"
LineaGrabadora(acc, grabadora, dias) ==
    LET grab == IF grabadora # None THEN Str(grabadora[1]) ELSE ""
    IN  IF grab = "6"
        THEN Agregar(acc, "subtotal_sd", "Grabadora MixPre-6", 1, <<dias, "dias">>,
                     P_MIXPRE6, P_MIXPRE6 * dias)
        ELSE IF grab = "10"
        THEN Agregar(acc, "subtotal_sd", "Grabadora MixPre-10", 1, <<dias, "dias">>,
                     P_MIXPRE10, P_MIXPRE10 * dias)
        ELSE acc

\* the block under `if dias > 0:`
Equipos(acc, sd, dias) ==
    LET a1 == LineaEquipo(acc, "Microfono Shotgun", sd.shotgun, P_SHOTGUN, dias)
        a2 == LineaEquipo(a1, "Sistemas inalambricos Lavalier", sd.lavalier,
                          P_LAVALIER, dias)
        a3 == LineaEquipo(a2, "Sistemas de Monitoreo", sd.monitoreo, P_MONITOREO, dias)
        a4 == LineaEquipo(a3, "Sistemas Time Code", sd.timecode, P_TIMECODE, dias)
    IN  LineaGrabadora(a4, sd.grabadora, dias)

\* faulty variant of profesional_days: no minimum of one day
profesional_days_sinMinimo(dias) == dias

profesional_days(dias) == IF dias > 0 THEN dias ELSE 1

\* if sd.sonidista / if sd.microfonista
LineaProfesional(acc, flag, descripcion, precio, dias_prof) ==
    IF flag
    THEN Agregar(acc, "subtotal_sd", descripcion, 1, <<dias_prof, "dias">>, precio,
                 precio * dias_prof)
    ELSE acc

RamaSonido(acc, c) ==
    LET sd == IF c.sonido # None THEN c.sonido[1] ELSE SonidoDirectoIn
        dias == Max(0, sd.dias)
        a1 == IF dias > 0 THEN Equipos(acc, sd, dias) ELSE acc
        pd == profesional_days(dias)
        a2 == LineaProfesional(a1, sd.sonidista, "Sonidista", P_SONIDISTA, pd)
    IN  LineaProfesional(a2, sd.microfonista, "Microfonista", P_MICROFONISTA, pd)

\* faulty variant of TarifaPost: mezcla compared without lower()
TarifaPost_sinLower(mezcla_in) ==
    LET mezcla == StrOr(mezcla_in, "stereo")
    IN  IF mezcla = "stereo"
        THEN [rate |-> P_POST_STEREO, descripcion |-> "Postproduccion Estereo"]
        ELSE [rate |-> P_POST_5_1, descripcion |-> "Postproduccion 5.1"]

\* rate and description by mezcla
TarifaPost(mezcla_in) ==
    LET mezcla == Lower(StrOr(mezcla_in, "stereo"))
    IN  IF mezcla = "stereo"
        THEN [rate |-> P_POST_STEREO, descripcion |-> "Postproduccion Estereo"]
        ELSE [rate |-> P_POST_5_1, descripcion |-> "Postproduccion 5.1"]

\* faulty variant of RamaPost: the post line is accumulated into subtotal_sd
RamaPost_enSubtotalSd(acc, c) ==
    LET post == IF c.post # None THEN c.post[1] ELSE PostProduccionIn
        minutos == Max(0, post.minutos)
        t == TarifaPost(post.mezcla)
    IN  IF minutos > 0
        THEN Agregar(acc, "subtotal_sd", t.descripcion, 1, <<minutos, "min">>,
                     t.rate, minutos * t.rate)
        ELSE acc

RamaPost(acc, c) ==
    LET post == IF c.post # None THEN c.post[1] ELSE PostProduccionIn
        minutos == Max(0, post.minutos)
        t == TarifaPost(post.mezcla)
    IN  IF minutos > 0
        THEN Agregar(acc, "subtotal_post", t.descripcion, 1, <<minutos, "min">>,
                     t.rate, minutos * t.rate)
        ELSE acc

IncluyeSonido(servicio) == servicio \in {"sonido_directo", "ambos"}
IncluyePost(servicio) == servicio \in {"postproduccion", "ambos"}

calcular_items(c) ==
    LET a0 == [items |-> <<>>, subtotal_sd |-> 0, subtotal_post |-> 0]
        servicio == Lower(c.servicio)  \* (c.servicio or "").lower(), servicio a str
        a1 == IF IncluyeSonido(servicio) THEN RamaSonido(a0, c) ELSE a0
    IN  IF IncluyePost(servicio) THEN RamaPost(a1, c) ELSE a1

(***************************************************************************)
(* calcular_respuesta (main.py:183-217).                                   *)
(***************************************************************************)
Iva(total_pre, aplicar_iva) == IF aplicar_iva THEN Round(total_pre * 19, 100) ELSE 0

Descuento(total_con_iva, descuento_pct) ==
    IF descuento_pct # 0 THEN Round(total_con_iva * descuento_pct, 100) ELSE 0

\* faulty variant of calcular_respuesta: the discount is taken on the pre-tax total
calcular_respuesta_descuentoSinIva(c) ==
    LET r == calcular_items(c)
        total_pre == r.subtotal_sd + r.subtotal_post
        iva_amt == Iva(total_pre, c.aplicar_iva)
        total_con_iva == total_pre + iva_amt
        descuento_pct == IntOr(c.descuento_pct, 0)
        descuento_amt == Descuento(total_pre, descuento_pct)
    IN  [items |-> r.items,
         subtotal_sd |-> r.subtotal_sd,
         subtotal_post |-> r.subtotal_post,
         iva |-> iva_amt,
         descuento |-> descuento_amt,
         total |-> total_con_iva - descuento_amt]

calcular_respuesta(c) ==
    LET r == calcular_items(c)
        total_pre == r.subtotal_sd + r.subtotal_post
        iva_amt == Iva(total_pre, c.aplicar_iva)
        total_con_iva == total_pre + iva_amt
        descuento_pct == IntOr(c.descuento_pct, 0)
        descuento_amt == Descuento(total_con_iva, descuento_pct)
    IN  [items |-> r.items,
         subtotal_sd |-> r.subtotal_sd,
         subtotal_post |-> r.subtotal_post,
         iva |-> iva_amt,
         descuento |-> descuento_amt,
         total |-> total_con_iva - descuento_amt]

(***************************************************************************)
(* generar_pdf_bytes (main.py:222-329).  A document is the logo cell of    *)
(* the header, the rows of the table (datos) and the flowables of the      *)
(* closing block.  An f-string is its template with the integers put in.   *)
(***************************************************************************)
Fmt(plantilla, args) == [plantilla |-> plantilla, args |-> args]

Texto(s) == Fmt(s, <<>>)
Dinero(n) == Fmt("${:,}", <<n>>)
DineroNegativo(n) == Fmt("-${:,}", <<n>>)

Cabecera ==
    <<Texto("Descripcion"), Texto("Cantidad"), Texto("Dias/Min"),
      Texto("Valor Unitario"), Texto("Subtotal")>>

FilaItem(it) ==
    <<Texto(it.descripcion), Fmt("{}", <<it.cantidad>>),
      Fmt("{} " \o it.duracion[2], <<it.duracion[1]>>),
      Dinero(it.unitario), Dinero(it.subtotal)>>

FilaResumen(etiqueta, valor) == <<Texto(""), Texto(""), Texto(""), etiqueta, valor>>

FilasItems(items) == [i \in 1..Len(items) |-> FilaItem(items[i])]

FilaIva(iva_aplicado, iva_amt) ==
    IF iva_aplicado /\ iva_amt # 0
    THEN <<FilaResumen(Texto("IVA (19%)"), Dinero(iva_amt))>>
    ELSE <<>>

FilaDescuento(descuento_pct, descuento_amt) ==
    IF descuento_pct # 0 /\ descuento_amt # 0
    THEN <<FilaResumen(Fmt("Descuento ({}%)", <<descuento_pct>>),
                       DineroNegativo(descuento_amt))>>
    ELSE <<>>

\* faulty variant of Datos: the discount row is put before the tax row
Datos_descuentoAntesDeIva(items, subtotal_sd, subtotal_post, total, iva_amt, descuento_amt, iva_aplicado, descuento_pct) ==
    <<Cabecera>>
    \o FilasItems(items)
    \o <<FilaResumen(Texto("Subtotal Sonido Directo"), Dinero(subtotal_sd)),
         FilaResumen(Texto("Subtotal Postproduccion"), Dinero(subtotal_post))>>
    \o FilaDescuento(descuento_pct, descuento_amt)
    \o FilaIva(iva_aplicado, iva_amt)
    \o <<FilaResumen(Texto("TOTAL"), Dinero(total))>>

Datos(items, subtotal_sd, subtotal_post, total, iva_amt, descuento_amt, iva_aplicado, descuento_pct) ==
    <<Cabecera>>
    \o FilasItems(items)
    \o <<FilaResumen(Texto("Subtotal Sonido Directo"), Dinero(subtotal_sd)),
         FilaResumen(Texto("Subtotal Postproduccion"), Dinero(subtotal_post))>>
    \o FilaIva(iva_aplicado, iva_amt)
    \o FilaDescuento(descuento_pct, descuento_amt)
    \o <<FilaResumen(Texto("TOTAL"), Dinero(total))>>

\* a file of static/ is "ok", "ausente" (os.path.exists is False) or
\* "ilegible" (ImageReader raises)
Logo(fsys) == IF fsys.logo = "ok" THEN "imagen" ELSE "parrafo_vacio"

Firma(fsys) ==
    CASE fsys.firma = "ok" -> <<"imagen_firma">>
      [] fsys.firma = "ilegible" -> <<"(firma no disponible)">>
      [] OTHER -> <<>>

Cierre(fsys) ==
    <<"Cordialmente,">> \o Firma(fsys)
    \o <<"JORGE BAHAMON", "Productor de Audio", "Contacto: +57 318 377 2397">>

\* the result is the document, or "RuntimeError" when reportlab cannot be imported
generar_pdf_bytes(items, subtotal_sd, subtotal_post, total, iva_amt, descuento_amt, iva_aplicado, descuento_pct, fsys) ==
    IF ~fsys.reportlab
    THEN [error |-> "RuntimeError", documento |-> None]
    ELSE [error |-> "",
          documento |-> Some([logo |-> Logo(fsys),
                              datos |-> Datos(items, subtotal_sd, subtotal_post, total,
                                              iva_amt, descuento_amt, iva_aplicado,
                                              descuento_pct),
                              cierre |-> Cierre(fsys)])]

(***************************************************************************)
(* Endpoints (main.py:347-388).                                            *)
(***************************************************************************)
ServiciosValidos == {"sonido_directo", "postproduccion", "ambos"}

\* faulty variant of ServicioValido: the permissive handler, every service is let through
ServicioValido_permisivo(servicio) == TRUE

ServicioValido(servicio) == Lower(servicio) \in ServiciosValidos

HTTPException(status, detail) == [status |-> status, detail |-> detail, media |-> ""]

\* faulty variant of SinItems: the empty item list is not looked at
SinItems_nunca(q) == FALSE

SinItems(q) == q.items = <<>>

\* the handler's outcome: the quote it computed, the response, the document
cotizar_json(c) ==
    IF ~ServicioValido(c.servicio)
    THEN [quote |-> None, resp |-> HTTPException(400, "servicio invalido"), doc |-> None]
    ELSE [quote |-> Some(calcular_respuesta(c)),
          resp |-> [status |-> 200, detail |-> "", media |-> "application/json"],
          doc |-> None]

\* cotizar_pdf once resp = calcular_respuesta(payload) is computed (q)
RenderizarRespuesta(c, q, fsys) ==
    IF SinItems(q)
    THEN [quote |-> Some(q),
          resp |-> HTTPException(400, "No hay items para cotizar"),
          doc |-> None]
    ELSE LET r == generar_pdf_bytes(q.items, q.subtotal_sd, q.subtotal_post,
                                    q.total, q.iva, q.descuento,
                                    c.aplicar_iva, IntOr(c.descuento_pct, 0), fsys)
         IN  IF r.error = "RuntimeError"
             THEN [quote |-> Some(q),
                   resp |-> HTTPException(500, "ReportLab no esta instalado"),
                   doc |-> None]
             ELSE [quote |-> Some(q),
                   resp |-> [status |-> 200, detail |-> "",
                             media |-> "application/pdf"],
                   doc |-> r.documento]

cotizar_pdf(c, fsys) ==
    IF ~ServicioValido(c.servicio)
    THEN [quote |-> None, resp |-> HTTPException(400, "servicio invalido"), doc |-> None]
    ELSE RenderizarRespuesta(c, calcular_respuesta(c), fsys)

(***************************************************************************)
(* Explored inputs.                                                        *)
(***************************************************************************)
Grabadoras ==
    {None, Some([t |-> "str", v |-> "6"]), Some([t |-> "int", v |-> 10]),
     Some([t |-> "str", v |-> "8"])}

\* the direct-sound blocks explored when the service is direct sound alone
Sonidos ==
    [dias : -1..MaxDias, shotgun : -1..MaxCount, lavalier : {0, MaxCount},
     monitoreo : {0, MaxCount}, timecode : {0, MaxCount}, grabadora : Grabadoras,
     sonidista : BOOLEAN, microfonista : BOOLEAN]

\* the direct-sound blocks explored together with every post block
SonidosAmbos ==
    [dias : -1..MaxDias, shotgun : {0, MaxCount}, lavalier : {0, MaxCount},
     monitoreo : {0}, timecode : {0},
     grabadora : {None, Some([t |-> "int", v |-> 10])},
     sonidista : BOOLEAN, microfonista : {FALSE}]

Mezclas == {None, Some(""), Some("stereo"), Some("STEREO"), Some("5.1")}

Posts == [minutos : -1..MaxMinutos, mezcla : Mezclas]

Descuentos == {None, Some(0), Some(-10), Some(20), Some(150)}

\* a sonido / post block that the service kind does not look at
SonidoFijo ==
    [SonidoDirectoIn EXCEPT !.dias = 1, !.shotgun = 1, !.sonidista = TRUE]
PostFijo == [minutos |-> 1, mezcla |-> Some("5.1")]

Opcional(S) == {None} \cup {Some(x) : x \in S}

\* a request: the blocks the service kind reads are explored in full
PayloadsDe(servicios, sonidos, posts) ==
    [servicio : servicios, sonido : Opcional(sonidos), post : Opcional(posts),
     aplicar_iva : BOOLEAN, descuento_pct : Descuentos]

ServiciosExplorados ==
    {"sonido_directo", "postproduccion", "POSTPRODUCCION", "ambos", "Ambos", "",
     "otro", "post"}

\* the payloads explored under every state of static/
PayloadsRender == PayloadsDe(ServiciosExplorados, {SonidoFijo}, {PostFijo})

Archivos == {"ok", "ausente", "ilegible"}

FsStates == [logo : Archivos, firma : Archivos, reportlab : BOOLEAN]

\* the deployment with reportlab installed and both images in static/
FsCompleto == [logo |-> "ok", firma |-> "ok", reportlab |-> TRUE]

NoResp == [status |-> 0, detail |-> "", media |-> ""]

Init ==
    /\ \/ /\ \/ payload \in PayloadsDe({"sonido_directo"}, Sonidos, {PostFijo})
             \/ payload \in PayloadsDe({"postproduccion", "POSTPRODUCCION"},
                                       {SonidoFijo}, Posts)
             \/ payload \in PayloadsDe({"ambos"}, SonidosAmbos, Posts)
          /\ fs = FsCompleto
       \/ /\ payload \in PayloadsRender
          /\ fs \in FsStates
    /\ pc = "pendiente"
    /\ quote = None
    /\ resp = NoResp
    /\ doc = None

CotizarJson ==
    /\ pc = "pendiente"
    /\ LET r == cotizar_json(payload)
       IN  /\ quote' = r.quote
           /\ resp' = r.resp
           /\ doc' = r.doc
    /\ pc' = "json"
    /\ UNCHANGED <<payload, fs>>

CotizarPdf ==
    /\ pc = "pendiente"
    /\ LET r == cotizar_pdf(payload, fs)
       IN  /\ quote' = r.quote
           /\ resp' = r.resp
           /\ doc' = r.doc
    /\ pc' = "pdf"
    /\ UNCHANGED <<payload, fs>>

Next == CotizarJson \/ CotizarPdf

Spec == Init /\ [][Next]_vars

(***************************************************************************)
(* Vocabulary of the properties.                                           *)
(***************************************************************************)
DescEquipos ==
    {"Microfono Shotgun", "Sistemas inalambricos Lavalier", "Sistemas de Monitoreo",
     "Sistemas Time Code"}
DescGrabadoras == {"Grabadora MixPre-6", "Grabadora MixPre-10"}
DescProfesionales == {"Sonidista", "Microfonista"}
DescSonido == DescEquipos \cup DescGrabadoras \cup DescProfesionales
DescPost == {"Postproduccion Estereo", "Postproduccion 5.1"}

Atendido == pc # "pendiente"
Cotizado == Atendido /\ quote # None

\* the request as the calculator reads it
Servicio == Lower(payload.servicio)
DiasPedidos == IF payload.sonido = None THEN 0 ELSE payload.sonido[1].dias
MinutosPedidos == IF payload.post = None THEN 0 ELSE payload.post[1].minutos
MezclaPedida == IF payload.post = None THEN Some("stereo") ELSE payload.post[1].mezcla
PctPedido ==
    IF payload.descuento_pct = None THEN 0 ELSE payload.descuento_pct[1]

Lineas(items, descs) == {i \in 1..Len(items) : items[i].descripcion \in descs}

RECURSIVE Suma(_, _)
Suma(items, idx) ==
    IF idx = {} THEN 0
    ELSE LET i == CHOOSE j \in idx : TRUE
         IN  items[i].subtotal + Suma(items, idx \ {i})

Abs(n) == IF n < 0 THEN -n ELSE n

\* r is num/den rounded to a nearest integer (either way on a tie)
Redondeado(r, num, den) == 2 * Abs(den * r - num) <= den

(***************************************************************************)
(* C1.  A request whose service kind is none of direct sound, post         *)
(* production or both is answered with the validation error (HTTP 400)     *)
(* and no quote is computed, by either endpoint.                           *)
(***************************************************************************)
C1_InvalidServiceRejected ==
    (Atendido /\ Servicio \notin {"sonido_directo", "postproduccion", "ambos"})
        => /\ resp.status = 400
           /\ resp.detail = "servicio invalido"
           /\ quote = None
           /\ doc = None

C1_Witness ==
    /\ pc = "json"
    /\ payload.servicio = "otro"
    /\ payload.sonido # None
    /\ resp.status = 400

(***************************************************************************)
(* C2.  The tax is 19% of the pre-tax total, rounded, when tax is applied  *)
(* and 0 otherwise; the discount is discount_pct percent of the            *)
(* tax-inclusive total, rounded, when discount_pct is not 0 and 0          *)
(* otherwise; the grand total is pre-tax + tax - discount.  Scenario D:    *)
(* 300000 pre-tax, tax on, 20% gives 57000, 71400 and 285600.              *)
(***************************************************************************)
ScenarioD ==
    /\ payload.servicio = "sonido_directo"
    /\ payload.sonido = Some([SonidoDirectoIn EXCEPT !.dias = 2, !.shotgun = 1])
    /\ payload.aplicar_iva
    /\ payload.descuento_pct = Some(20)

C2_DiscountOnTaxInclusiveTotal ==
    Cotizado =>
        LET q == quote[1]
            pre == q.subtotal_sd + q.subtotal_post
        IN  /\ IF payload.aplicar_iva THEN Redondeado(q.iva, pre * 19, 100)
                                      ELSE q.iva = 0
            /\ IF PctPedido # 0
               THEN Redondeado(q.descuento, (pre + q.iva) * PctPedido, 100)
               ELSE q.descuento = 0
            /\ q.total = pre + q.iva - q.descuento
            /\ ScenarioD => q.iva = 57000 /\ q.descuento = 71400 /\ q.total = 285600

C2_Witness ==
    /\ pc = "json"
    /\ ScenarioD
    /\ quote # None
    /\ quote[1].subtotal_sd = 300000
    /\ quote[1].descuento = 71400

(***************************************************************************)
(* C3.  Every currency field of a computed quote (both subtotals, tax,     *)
(* discount, grand total) is a non-negative integer, whatever integer      *)
(* discount_pct, days, counts and minutes the request holds.               *)
(***************************************************************************)
C3_CurrencyNonNegative ==
    Cotizado =>
        LET q == quote[1]
        IN  /\ q.subtotal_sd \in Nat
            /\ q.subtotal_post \in Nat
            /\ q.iva \in Nat
            /\ q.descuento \in Nat
            /\ q.total \in Nat

(***************************************************************************)
(* C4.  When the service includes direct sound and days is 0 or negative:  *)
(* no equipment line and no recorder line is produced, and each crew flag  *)
(* that is set produces exactly one line, for 1 day, priced at the         *)
(* day-rate.                                                               *)
(***************************************************************************)
LineaUnicaProfesional(items, flag, desc, precio) ==
    flag =>
        /\ Cardinality(Lineas(items, {desc})) = 1
        /\ \A i \in Lineas(items, {desc}) :
              /\ items[i].cantidad = 1
              /\ items[i].duracion = <<1, "dias">>
              /\ items[i].unitario = precio
              /\ items[i].subtotal = precio

C4_ZeroDaysOnlyCrew ==
    (Cotizado /\ Servicio \in {"sonido_directo", "ambos"} /\ DiasPedidos <= 0) =>
        LET items == quote[1].items
            sd == IF payload.sonido = None THEN SonidoDirectoIn ELSE payload.sonido[1]
        IN  /\ Lineas(items, DescEquipos \cup DescGrabadoras) = {}
            /\ LineaUnicaProfesional(items, sd.sonidista, "Sonidista", 400000)
            /\ LineaUnicaProfesional(items, sd.microfonista, "Microfonista", 250000)

C4_Witness ==
    /\ pc = "json"
    /\ payload.servicio = "sonido_directo"
    /\ payload.sonido # None
    /\ DiasPedidos = 0
    /\ payload.sonido[1].shotgun > 0
    /\ payload.sonido[1].timecode > 0
    /\ payload.sonido[1].grabadora # None
    /\ payload.sonido[1].sonidista
    /\ payload.sonido[1].microfonista
    /\ quote # None
    /\ Len(quote[1].items) = 2
    /\ quote[1].subtotal_sd = 650000

(***************************************************************************)
(* C5.  Every line of a computed quote has quantity >= 1 and a line total  *)
(* equal to quantity * unit price * multiplier: the days for equipment     *)
(* and recorder lines, the professional days for crew lines, the minutes   *)
(* for the post-production line.                                           *)
(***************************************************************************)
Multiplicador(desc) ==
    IF desc \in DescEquipos \cup DescGrabadoras THEN DiasPedidos
    ELSE IF desc \in DescProfesionales
         THEN (IF DiasPedidos > 0 THEN DiasPedidos ELSE 1)
    ELSE MinutosPedidos

LineaPostDe(items, rate) ==
    /\ Cardinality(Lineas(items, DescPost)) = 1
    /\ \A i \in Lineas(items, DescPost) :
          /\ items[i].unitario = rate
          /\ items[i].subtotal = MinutosPedidos * rate

PostCotizado == Cotizado /\ Servicio \in {"postproduccion", "ambos"}

\* as claimed: 300000 only for the literal "stereo" (the default of an absent
\* mix_format), 400000 for every other value
C6_RateLiteralStereo ==
    PostCotizado =>
        IF MinutosPedidos <= 0 THEN Lineas(quote[1].items, DescPost) = {}
        ELSE LineaPostDe(quote[1].items,
                         IF MezclaPedida \in {None, Some("stereo")}
                         THEN 300000 ELSE 400000)

\* as the code has it: 300000 for "stereo" in any letter case and for an
\* absent or empty mix_format, 400000 for every other value
EsStereo(m) == m \in {None, Some(""), Some("stereo"), Some("STEREO"), Some("Stereo")}

C6_RateStereoAnyCase ==
    PostCotizado =>
        IF MinutosPedidos <= 0 THEN Lineas(quote[1].items, DescPost) = {}
        ELSE LineaPostDe(quote[1].items,
                         IF EsStereo(MezclaPedida) THEN 300000 ELSE 400000)

C6_Witness ==
    /\ pc = "json"
    /\ PostCotizado
    /\ MinutosPedidos = 2
    /\ MezclaPedida = Some("STEREO")
    /\ quote[1].subtotal_post = 600000

(***************************************************************************)
(* C7.  In a computed quote the direct-sound subtotal is the sum of the    *)
(* direct-sound line totals and the post-production subtotal the sum of    *)
(* the post-production line totals, so the two add up to the sum of all    *)
(* the line totals.                                                        *)
(***************************************************************************)
C7_SubtotalsByCategory ==
    Cotizado =>
        LET q == quote[1]
        IN  /\ q.subtotal_sd = Suma(q.items, Lineas(q.items, DescSonido))
            /\ q.subtotal_post = Suma(q.items, Lineas(q.items, DescPost))
            /\ q.subtotal_sd + q.subtotal_post = Suma(q.items, 1..Len(q.items))

C7_Witness ==
    /\ pc = "json"
    /\ payload.servicio = "ambos"
    /\ quote # None
    /\ Len(quote[1].items) = 4
    /\ quote[1].subtotal_sd = 860000
    /\ quote[1].subtotal_post = 800000

(***************************************************************************)
(* C8.  The PDF endpoint rejects a quote without line items (HTTP 400)     *)
(* and builds no document for it.                                          *)
(***************************************************************************)
C8_EmptyQuoteNotRendered ==
    (pc = "pdf" /\ quote # None /\ quote[1].items = <<>>)
        => /\ resp.status = 400
           /\ resp.detail = "No hay items para cotizar"
           /\ doc = None

C8_Witness ==
    /\ pc = "pdf"
    /\ payload.servicio = "ambos"
    /\ payload.sonido # None
    /\ payload.sonido[1].shotgun > 0
    /\ fs.reportlab
    /\ quote # None
    /\ quote[1].items = <<>>
    /\ resp.status = 400

(***************************************************************************)
(* C9.  The table of a rendered document is the header row, one row per    *)
(* line item in list order, then the direct-sound subtotal, the            *)
(* post-production subtotal, the tax row (iff tax was applied and the tax  *)
(* is not 0), the discount row (iff the discount is not 0; minus sign,     *)
(* percentage in the label) and the grand total as the last row.           *)
(***************************************************************************)
EsFilaResumen(fila, etiqueta, valor) ==
    /\ fila[4] = etiqueta
    /\ fila[5] = valor

C9_TableRowOrder ==
    doc # None =>
        LET q == quote[1]
            filas == doc[1].datos
            n == Len(q.items)
            conIva == payload.aplicar_iva /\ q.iva # 0
            conDesc == q.descuento # 0
            k == n + 3 + (IF conIva THEN 1 ELSE 0)
        IN  /\ Len(filas) = k + (IF conDesc THEN 1 ELSE 0) + 1
            /\ \A i \in 1..n :
                  /\ filas[i + 1][1] = Texto(q.items[i].descripcion)
                  /\ filas[i + 1][2].args = <<q.items[i].cantidad>>
                  /\ filas[i + 1][4] = Dinero(q.items[i].unitario)
                  /\ filas[i + 1][5] = Dinero(q.items[i].subtotal)
            /\ EsFilaResumen(filas[n + 2], Texto("Subtotal Sonido Directo"),
                             Dinero(q.subtotal_sd))
            /\ EsFilaResumen(filas[n + 3], Texto("Subtotal Postproduccion"),
                             Dinero(q.subtotal_post))
            /\ conIva => EsFilaResumen(filas[n + 4], Texto("IVA (19%)"), Dinero(q.iva))
            /\ conDesc => EsFilaResumen(filas[k + 1],
                                        Fmt("Descuento ({}%)", <<PctPedido>>),
                                        DineroNegativo(q.descuento))
            /\ EsFilaResumen(filas[Len(filas)], Texto("TOTAL"), Dinero(q.total))

C9_Witness ==
    /\ pc = "pdf"
    /\ doc # None
    /\ payload.aplicar_iva
    /\ payload.descuento_pct = Some(20)
    /\ Len(quote[1].items) = 3
    /\ Len(doc[1].datos) = 9

(***************************************************************************)
(* C10.  With reportlab available, a missing or unreadable signature file  *)
(* puts the text placeholder in the closing block, a missing or unreadable *)
(* logo puts the blank placeholder in the header, and the document is      *)
(* produced all the same.                                                  *)
(***************************************************************************)
EnCierre(texto) == \E i \in 1..Len(doc[1].cierre) : doc[1].cierre[i] = texto

C10_MissingAssetsPlaceholders ==
    (pc = "pdf" /\ fs.reportlab /\ quote # None /\ quote[1].items # <<>>)
        => /\ resp.status = 200
           /\ doc # None
           /\ fs.logo # "ok" => doc[1].logo = "parrafo_vacio"
           /\ fs.firma # "ok" => EnCierre("(firma no disponible)")

====
